---- MODULE Spec2Model ----
(***************************************************************************)
(* A model of craffft-backend's Airtable synchronisation layer:            *)
(*   - AirtableCSVManager  (src/airtable_csv.py): one table's handle; its  *)
(*     update_csv_from_airtable turns the fetched records into CSV text    *)
(*     and hands the text to the shared SQLiteStorage;                     *)
(*   - AirtableMultiManager (src/airtable_multi_manager.py): the           *)
(*     coordinator that owns table_names, the managers dict and the one    *)
(*     shared storage.                                                     *)
(* Text is modelled character by character (a string is a sequence of      *)
(* one-character strings), so that quoting and re-parsing are computed.    *)
(***************************************************************************)
EXTENDS Integers, Sequences, FiniteSets, TLC

VARIABLES
    phase,          \* "unconstructed" | "constructed" | "config_error"
    api_key,        \* AirtableMultiManager.api_key
    base_id,        \* AirtableMultiManager.base_id
    table_names,    \* AirtableMultiManager.table_names (a Python list)
    managers,       \* AirtableMultiManager.managers (a Python dict, in key order)
    sqlite_storage, \* AirtableMultiManager.sqlite_storage (identity of the instance)
    store,          \* contents of the shared storage: table name -> rows
    last,           \* the last call made on the coordinator and its outcome
    records,        \* airtable.get_all() result inside one handle sync
    cpc,            \* position inside that sync: "fetched" | "synced" | "reparsed"
    fieldnames,     \* the sync's local fieldnames list
    csv_data,       \* the sync's local csv_data text
    sync_result,    \* what the sync returned
    reparsed        \* csv_data read back by a standard CSV reader

vars == <<phase, api_key, base_id, table_names, managers, sqlite_storage,
          store, last, records, cpc, fieldnames, csv_data, sync_result, reparsed>>

coordVars == <<phase, api_key, base_id, table_names, managers, sqlite_storage,
               store, last>>

csvVars == <<records, cpc, fieldnames, csv_data, sync_result, reparsed>>

(***************************************************************************)
(* Bounds of the model.                                                    *)
(***************************************************************************)
\* longest string value of a probe record
MaxStrLen == 3
\* most records in one fetched result whose field sets vary
MaxRecords == 2
\* longest initial table list handed to the constructor
MaxInitLen == 2
\* most table names one discovery returns
MaxDiscover == 2

(***************************************************************************)
(* Characters, strings and loosely typed field values.                     *)
(***************************************************************************)
Comma == ","
Quote == "\""
CR == "\r"
LF == "\n"
Chars == {"a", Comma, Quote}

Strings(n) == UNION {[1..k -> Chars] : k \in 0..n}

\* A field value: its Python type and the text str() gives for it.
StrVal(s) == [kind |-> "str", s |-> s]
IntVal == [kind |-> "int", s |-> <<"7">>]
NoneVal == [kind |-> "none", s |-> <<>>]

\* Field (column) names, as text.
FieldNames == {<<"f">>, <<"g">>}

Range(q) == {q[i] : i \in 1..Len(q)}

HasChar(s, c) == \E i \in 1..Len(s) : s[i] = c

RECURSIVE Concat(_)
Concat(qs) == IF qs = <<>> THEN <<>> ELSE Head(qs) \o Concat(Tail(qs))

\* str.replace('"', '""')
RECURSIVE replace_quotes(_)
replace_quotes(s) ==
    IF s = <<>> THEN <<>>
    ELSE (IF Head(s) = Quote THEN <<Quote, Quote>> ELSE <<Head(s)>>)
         \o replace_quotes(Tail(s))

(***************************************************************************)
(* AirtableCSVManager: the escaping step and the CSV text it writes.       *)
(***************************************************************************)
\* A record is [fields |-> mapping from field name to value].
record_comma_check(record) ==
    [fields |-> [k \in DOMAIN record.fields |->
        IF record.fields[k].kind = "str" /\ HasChar(record.fields[k].s, Comma)
        THEN StrVal(replace_quotes(record.fields[k].s))
        ELSE record.fields[k]]]

\* derive_fieldnames taking the first record's keys only
derive_fieldnames_first(recs) == DOMAIN recs[1].fields

\* fieldnames = set(); fieldnames.update(record['fields'].keys()) for each record
derive_fieldnames(recs) == UNION {DOMAIN recs[i].fields : i \in 1..Len(recs)}

\* list(fieldnames): the set's iteration order, given by the hash order ho
\* (a sequence holding every field name once).
list_of_set(S, ho) == SelectSeq(ho, LAMBDA x : x \in S)

HashOrders == {q \in [1..Cardinality(FieldNames) -> FieldNames] : Range(q) = FieldNames}

\* csv.writer with the default dialect (QUOTE_MINIMAL, doublequote): a cell
\* is quoted when it holds the delimiter, the quote character or a line break.
needs_quoting(s) == \E i \in 1..Len(s) : s[i] \in {Comma, Quote, CR, LF}

join_append(s) ==
    IF needs_quoting(s) THEN <<Quote>> \o replace_quotes(s) \o <<Quote>> ELSE s

RECURSIVE join_cells(_)
join_cells(cells) ==
    IF cells = <<>> THEN <<>>
    ELSE IF Len(cells) = 1 THEN join_append(cells[1])
    ELSE join_append(Head(cells)) \o <<Comma>> \o join_cells(Tail(cells))

\* One written line; a row of a single empty cell is written as "".
writerow(cells) ==
    (IF Len(cells) = 1 /\ cells[1] = <<>> THEN <<Quote, Quote>> ELSE join_cells(cells))
    \o <<CR, LF>>

\* DictWriter: keys of the row that are no column (these make writerow raise)
extra_keys(fns, fields) == DOMAIN fields \ Range(fns)

\* DictWriter: [rowdict.get(key, restval) for key in fieldnames], restval ''
dict_to_list(fns, fields) ==
    [i \in 1..Len(fns) |-> IF fns[i] \in DOMAIN fields THEN fields[fns[i]].s ELSE <<>>]

\* writer.writeheader(), then for every record: record_comma_check, writerow
write_csv(recs, fns) ==
    writerow(fns)
    \o Concat([i \in 1..Len(recs) |->
                  writerow(dict_to_list(fns, record_comma_check(recs[i]).fields))])

(***************************************************************************)
(* A standard CSV reader (the state machine of Python's csv.reader with    *)
(* the default dialect): what re-parsing the written text gives.           *)
(***************************************************************************)
RECURSIVE reader_step(_, _, _, _, _, _)
reader_step(t, i, st, field, row, rows) ==
    IF i > Len(t)
    THEN IF st \in {"START_RECORD", "EAT_CRNL"} THEN rows
         ELSE Append(rows, Append(row, field))
    ELSE LET c == t[i]
             after_nl == IF c = CR THEN "EAT_CRNL" ELSE "START_RECORD"
         IN
         CASE st = "EAT_CRNL" ->
                reader_step(t, IF c = LF THEN i + 1 ELSE i, "START_RECORD", <<>>, <<>>, rows)
           [] st = "START_RECORD" ->
                IF c \in {CR, LF}
                THEN reader_step(t, i + 1, after_nl, <<>>, <<>>, Append(rows, <<>>))
                ELSE reader_step(t, i, "START_FIELD", <<>>, <<>>, rows)
           [] st = "START_FIELD" ->
                IF c \in {CR, LF}
                THEN reader_step(t, i + 1, after_nl, <<>>, <<>>,
                                 Append(rows, Append(row, <<>>)))
                ELSE IF c = Quote
                THEN reader_step(t, i + 1, "IN_QUOTED_FIELD", <<>>, row, rows)
                ELSE IF c = Comma
                THEN reader_step(t, i + 1, "START_FIELD", <<>>, Append(row, <<>>), rows)
                ELSE reader_step(t, i + 1, "IN_FIELD", <<c>>, row, rows)
           [] st = "IN_FIELD" ->
                IF c \in {CR, LF}
                THEN reader_step(t, i + 1, after_nl, <<>>, <<>>,
                                 Append(rows, Append(row, field)))
                ELSE IF c = Comma
                THEN reader_step(t, i + 1, "START_FIELD", <<>>, Append(row, field), rows)
                ELSE reader_step(t, i + 1, "IN_FIELD", Append(field, c), row, rows)
           [] st = "IN_QUOTED_FIELD" ->
                IF c = Quote
                THEN reader_step(t, i + 1, "QUOTE_IN_QUOTED_FIELD", field, row, rows)
                ELSE reader_step(t, i + 1, "IN_QUOTED_FIELD", Append(field, c), row, rows)
           [] OTHER -> \* QUOTE_IN_QUOTED_FIELD
                IF c = Quote
                THEN reader_step(t, i + 1, "IN_QUOTED_FIELD", Append(field, Quote), row, rows)
                ELSE IF c = Comma
                THEN reader_step(t, i + 1, "START_FIELD", <<>>, Append(row, field), rows)
                ELSE IF c \in {CR, LF}
                THEN reader_step(t, i + 1, after_nl, <<>>, <<>>,
                                 Append(rows, Append(row, field)))
                ELSE reader_step(t, i + 1, "IN_FIELD", Append(field, c), row, rows)

csv_reader(text) == reader_step(text, 1, "START_RECORD", <<>>, <<>>, <<>>)

(***************************************************************************)
(* Call outcomes.                                                          *)
(***************************************************************************)
\* Python's None, as a returned value
Null == [kind |-> "None", val |-> <<>>]

\* f"Successfully updated DB from Airtable for table {self.table_name}."
SuccessMsg(t) ==
    [kind |-> "Successfully updated DB from Airtable for table", val |-> <<t>>]

Returned(v) == [raised |-> FALSE, value |-> v]
Raised(e) == [raised |-> TRUE, value |-> [kind |-> "exception", val |-> <<e>>]]

\* What Airtable(...).get_all() does in one call: raise, or return records.
FetchOk(recs) == [raises |-> FALSE, records |-> recs]
FetchError == [raises |-> TRUE, records |-> <<>>]

(***************************************************************************)
(* Tables and the storage shared by the handles.                           *)
(***************************************************************************)
DefaultTable == "DataHub_Craffft"
TableNames == {DefaultTable, "Users", "Quests"}

\* No storage instance (sqlite_storage=None).
NoStorage == "None"

\* SQLiteStorage.import_csv_rows: the table's rows are replaced by the rows
\* read from the CSV text (first line the header, blank lines skipped).
csv_rows(data) ==
    LET rows == csv_reader(data) IN
    IF rows = <<>> THEN <<>>
    ELSE LET header == rows[1]
             body == SelectSeq(Tail(rows), LAMBDA r : r # <<>>)
         IN [i \in 1..Len(body) |->
                [c \in Range(header) |->
                    LET j == CHOOSE j \in 1..Len(header) : header[j] = c
                    IN IF j <= Len(body[i]) THEN body[i][j] ELSE <<>>]]

import_csv_rows(st, t, data) == [st EXCEPT ![t] = csv_rows(data)]

\* AirtableCSVManager.__init__
AirtableCSVManager(b, t, k, storage) ==
    [base_id |-> b, table_name |-> t, api_key |-> k, sqlite_storage |-> storage]

\* store_csv adding the rows to the table's rows instead of replacing them
store_csv_append(self, st, data) ==
    IF self.sqlite_storage # NoStorage
    THEN [st EXCEPT ![self.table_name] = st[self.table_name] \o csv_rows(data)]
    ELSE st

\* if self.sqlite_storage: self.sqlite_storage.import_csv_rows(self.table_name, csv_data)
store_csv(self, st, data) ==
    IF self.sqlite_storage # NoStorage
    THEN import_csv_rows(st, self.table_name, data)
    ELSE st

\* write_and_store: the part of update_csv_from_airtable after the fetch,
\* from line 23 on
write_and_store(self, recs, ho, st) ==
    LET fns == list_of_set(derive_fieldnames(recs), ho)
        data == write_csv(recs, fns)
    IN IF \E i \in 1..Len(recs) : extra_keys(fns, recs[i].fields) # {}
       THEN [outcome |-> Raised("ValueError"), fieldnames |-> fns,
             csv_data |-> <<>>, store |-> st]
       ELSE [outcome |-> Returned(SuccessMsg(self.table_name)),
             fieldnames |-> fns, csv_data |-> data,
             store |-> store_csv(self, st, data)]

\* handle_update without the "if not records: return None" test
handle_update_no_empty_test(self, fetch, ho, st) ==
    IF fetch.raises
    THEN [outcome |-> Raised("fetch failed"), fieldnames |-> <<>>, csv_data |-> <<>>,
          store |-> st]
    ELSE write_and_store(self, fetch.records, ho, st)

\* AirtableCSVManager.update_csv_from_airtable, given what the fetch does and
\* the hash order of the field-name set: the outcome, the locals, the storage.
handle_update(self, fetch, ho, st) ==
    IF fetch.raises
    THEN [outcome |-> Raised("fetch failed"), fieldnames |-> <<>>, csv_data |-> <<>>,
          store |-> st]
    ELSE IF fetch.records = <<>>
    THEN [outcome |-> Returned(Null), fieldnames |-> <<>>, csv_data |-> <<>>,
          store |-> st]
    ELSE write_and_store(self, fetch.records, ho, st)

(***************************************************************************)
(* One handle on its own: every bounded fetched result, synced, and the    *)
(* written text read back.                                                 *)
(***************************************************************************)
SampleValues == {StrVal(<<"a">>), IntVal, NoneVal}

RecordsOver(V) ==
    {[fields |-> f] : f \in UNION {[D -> V] : D \in SUBSET FieldNames}}

RECURSIVE ListsUpTo(_, _)
ListsUpTo(S, n) ==
    IF n = 0 THEN {<<>>}
    ELSE LET shorter == ListsUpTo(S, n - 1)
         IN shorter \cup {Append(q, x) : q \in {r \in shorter : Len(r) = n - 1}, x \in S}

\* results whose records differ in their field sets and value types
ShapeLists == ListsUpTo(RecordsOver(SampleValues), MaxRecords)

\* one record holding any string up to MaxStrLen, alone or beside another cell
ProbeLists ==
    {<<[fields |-> (<<"f">> :> StrVal(s))]>> : s \in Strings(MaxStrLen)}
    \cup {<<[fields |-> (<<"f">> :> StrVal(s)) @@ (<<"g">> :> StrVal(<<"a">>))]>> :
             s \in Strings(MaxStrLen)}

RecordLists == ShapeLists \cup ProbeLists

EmptyStore == [t \in TableNames |-> <<>>]

\* The handle of the stand-alone sync.
LoneHandle == AirtableCSVManager("base", DefaultTable, "key", "storage")

CoordIdle ==
    /\ phase = "unconstructed"
    /\ api_key = "<None>" /\ base_id = "<None>"
    /\ table_names = <<>> /\ managers = <<>>
    /\ sqlite_storage = NoStorage
    /\ last = [op |-> "none", arg |-> "", outcome |-> Returned(Null), again |-> FALSE,
               fetch |-> FetchOk(<<>>), calls |-> [remote |-> 0, storage |-> 0]]

CsvIdle ==
    /\ records = <<>> /\ cpc = "idle"
    /\ fieldnames = <<>> /\ csv_data = <<>>
    /\ sync_result = Returned(Null) /\ reparsed = <<>>

InitCsv ==
    /\ CoordIdle
    /\ store = EmptyStore
    /\ records \in RecordLists
    /\ cpc = "fetched"
    /\ fieldnames = <<>> /\ csv_data = <<>>
    /\ sync_result = Returned(Null) /\ reparsed = <<>>

\* AirtableCSVManager.update_csv_from_airtable on the fetched records
CsvSync ==
    /\ cpc = "fetched"
    /\ \E ho \in HashOrders :
         LET r == handle_update(LoneHandle, FetchOk(records), ho, store) IN
         /\ fieldnames' = r.fieldnames
         /\ csv_data' = r.csv_data
         /\ sync_result' = r.outcome
         /\ store' = r.store
    /\ cpc' = "synced"
    /\ UNCHANGED <<records, reparsed, phase, api_key, base_id, table_names,
                   managers, sqlite_storage, last>>

\* a standard CSV reader applied to the text the sync wrote
CsvReparse ==
    /\ cpc = "synced"
    /\ ~sync_result.raised /\ sync_result.value # Null
    /\ reparsed' = csv_reader(csv_data)
    /\ cpc' = "reparsed"
    /\ UNCHANGED <<records, fieldnames, csv_data, sync_result, store, phase,
                   api_key, base_id, table_names, managers, sqlite_storage, last>>

\* a second update_csv_from_airtable on the same handle, the remote result
\* unchanged (the set's iteration order is again any order)
CsvSyncAgain ==
    /\ cpc = "synced"
    /\ \E ho \in HashOrders :
         LET r == handle_update(LoneHandle, FetchOk(records), ho, store) IN
         /\ fieldnames' = r.fieldnames
         /\ csv_data' = r.csv_data
         /\ sync_result' = r.outcome
         /\ store' = r.store
    /\ cpc' = "synced again"
    /\ UNCHANGED <<records, reparsed, phase, api_key, base_id, table_names,
                   managers, sqlite_storage, last>>

NextCsv == CsvSync \/ CsvReparse \/ CsvSyncAgain

SpecCsv == InitCsv /\ [][NextCsv]_vars

(***************************************************************************)
(* AirtableMultiManager: the coordinator.                                  *)
(***************************************************************************)
\* Python dict, as the sequence of its items in key order.
dict_keys(d) == [i \in 1..Len(d) |-> d[i].key]

dict_has(d, k) == \E i \in 1..Len(d) : d[i].key = k

\* d[k] = v: an existing key keeps its place, a new key goes last
dict_set(d, k, v) ==
    IF dict_has(d, k)
    THEN [i \in 1..Len(d) |-> IF d[i].key = k THEN [key |-> k, value |-> v] ELSE d[i]]
    ELSE Append(d, [key |-> k, value |-> v])

\* del d[k]
dict_del(d, k) == SelectSeq(d, LAMBDA it : it.key # k)

\* What dict.get gives for a missing key (None), shaped like a handle.
NoManager == AirtableCSVManager("None", "None", "None", NoStorage)

\* d.get(k)
dict_get(d, k) ==
    IF dict_has(d, k) THEN d[CHOOSE i \in 1..Len(d) : d[i].key = k].value ELSE NoManager

Count(q, x) == Cardinality({i \in 1..Len(q) : q[i] = x})

\* list.remove(x): the first occurrence goes
list_remove(q, x) ==
    LET i == CHOOSE i \in 1..Len(q) : q[i] = x /\ \A j \in 1..(i - 1) : q[j] # x
    IN SubSeq(q, 1, i - 1) \o SubSeq(q, i + 1, Len(q))

\* A credential or identifier: missing (None), empty, or set.
AbsentCred == "<None>"
Cred == {AbsentCred, "", "key"}

\* not api_key / not base_id
falsy(x) == x \in {AbsentCred, ""}

\* Storage instances: the one a caller passes in, the one __init__ makes.
PassedStorage == "storage passed in"
OwnStorage == "storage made by __init__"

\* An optional table list: table_names=None, or a list.
NoList == [given |-> FALSE, names |-> <<>>]
SomeList(q) == [given |-> TRUE, names |-> q]

Bool(b) == [kind |-> "bool", val |-> <<b>>]
Dict(m) == [kind |-> "dict", val |-> <<m>>]
Rows(r) == [kind |-> "rows", val |-> r]
Value(v) == [kind |-> "value", val |-> v]

\* "Failed to update"
Failed == [kind |-> "Failed to update", val |-> <<>>]

\* f"Error: {str(e)}"
ErrorMsg(e) == [kind |-> "Error", val |-> e.val]

NoCalls == [remote |-> 0, storage |-> 0]

\* The record of one call on the coordinator.
Call(op, arg, outcome, fetch, calls) ==
    [op |-> op, arg |-> arg, outcome |-> outcome,
     again |-> (last.op = op /\ last.arg = arg),
     fetch |-> fetch, calls |-> calls]

\* _initialize_managers: one handle per entry of table_names, in list order
RECURSIVE initialize_managers(_, _, _, _, _)
initialize_managers(names, mgrs, b, k, storage) ==
    IF names = <<>> THEN mgrs
    ELSE initialize_managers(Tail(names),
                             dict_set(mgrs, Head(names),
                                      AirtableCSVManager(b, Head(names), k, storage)),
                             b, k, storage)

\* AirtableMultiManager.__init__
init_coordinator(k, b, tl, storage) ==
    LET own == IF storage # NoStorage THEN storage ELSE OwnStorage
        names == IF ~tl.given THEN <<DefaultTable>> ELSE tl.names
    IN /\ phase' = "constructed"
       /\ api_key' = k
       /\ base_id' = b
       /\ sqlite_storage' = own
       /\ table_names' = names
       /\ managers' = initialize_managers(names, <<>>, b, k, own)

config_error(op) ==
    /\ phase' = "config_error"
    /\ last' = Call(op, "", Raised("ValueError"), FetchOk(<<>>), NoCalls)
    /\ UNCHANGED <<api_key, base_id, table_names, managers, sqlite_storage>>

\* AirtableMultiManager(api_key, base_id, table_names, sqlite_storage)
construct(k, b, tl, storage) ==
    /\ phase = "unconstructed"
    /\ init_coordinator(k, b, tl, storage)
    /\ last' = Call("__init__", "", Returned(Null), FetchOk(<<>>), NoCalls)
    /\ UNCHANGED <<store, csvVars>>

\* AirtableMultiManager.from_environment(): k, b are what os.getenv gives
from_environment(k, b) ==
    /\ phase = "unconstructed"
    /\ IF falsy(k) \/ falsy(b)
       THEN config_error("from_environment")
       ELSE /\ init_coordinator(k, b, NoList, PassedStorage)
            /\ last' = Call("from_environment", "", Returned(Null), FetchOk(<<>>), NoCalls)
    /\ UNCHANGED <<store, csvVars>>

\* AirtableMultiManager.from_config_dict(config)
from_config_dict(k, b, tl) ==
    /\ phase = "unconstructed"
    /\ IF falsy(k) \/ falsy(b)
       THEN config_error("from_config_dict")
       ELSE /\ init_coordinator(k, b, tl, PassedStorage)
            /\ last' = Call("from_config_dict", "", Returned(Null), FetchOk(<<>>), NoCalls)
    /\ UNCHANGED <<store, csvVars>>

\* the handle add_table makes
new_handle_private(tn) == AirtableCSVManager(base_id, tn, api_key, NoStorage)

new_handle(tn) == AirtableCSVManager(base_id, tn, api_key, sqlite_storage)

\* add_table's effect on [table_names, managers]
add_to(reg, tn) ==
    [table_names |-> IF tn \notin Range(reg.table_names)
                     THEN Append(reg.table_names, tn) ELSE reg.table_names,
     managers |-> dict_set(reg.managers, tn, new_handle(tn))]

Registry == [table_names |-> table_names, managers |-> managers]

\* AirtableMultiManager.add_table
add_table(tn) ==
    /\ phase = "constructed"
    /\ table_names' = add_to(Registry, tn).table_names
    /\ managers' = add_to(Registry, tn).managers
    /\ last' = Call("add_table", tn, Returned(Null), FetchOk(<<>>), NoCalls)
    /\ UNCHANGED <<phase, api_key, base_id, sqlite_storage, store, csvVars>>

\* AirtableMultiManager.remove_table
remove_table(tn) ==
    /\ phase = "constructed"
    /\ IF dict_has(managers, tn)
       THEN /\ managers' = dict_del(managers, tn)
            /\ table_names' = IF tn \in Range(table_names)
                              THEN list_remove(table_names, tn) ELSE table_names
            /\ last' = Call("remove_table", tn, Returned(Bool(TRUE)), FetchOk(<<>>), NoCalls)
       ELSE /\ UNCHANGED <<managers, table_names>>
            /\ last' = Call("remove_table", tn, Returned(Bool(FALSE)), FetchOk(<<>>), NoCalls)
    /\ UNCHANGED <<phase, api_key, base_id, sqlite_storage, store, csvVars>>

RECURSIVE add_all(_, _)
add_all(reg, names) ==
    IF names = <<>> THEN reg ELSE add_all(add_to(reg, Head(names)), Tail(names))

\* AirtableMultiManager.discover_and_add_tables_from_base: found is what
\* get_tables_from_base returns, None (NoList) or a list of names
discover_and_add_tables_from_base(found) ==
    /\ phase = "constructed"
    /\ IF found.given /\ found.names # <<>>
       THEN /\ table_names' = add_all(Registry, found.names).table_names
            /\ managers' = add_all(Registry, found.names).managers
            /\ last' = Call("discover_and_add_tables_from_base", "",
                            Returned(Dict([n \in Range(found.names) |-> TRUE])),
                            FetchOk(<<>>), [remote |-> 1, storage |-> 0])
       ELSE /\ UNCHANGED <<table_names, managers>>
            /\ last' = Call("discover_and_add_tables_from_base", "",
                            Returned(Dict(<<>>)),
                            FetchOk(<<>>), [remote |-> 1, storage |-> 0])
    /\ UNCHANGED <<phase, api_key, base_id, sqlite_storage, store, csvVars>>

\* AirtableMultiManager.get_manager
get_manager(tn) == dict_get(managers, tn)

\* AirtableMultiManager.get_available_tables: the registered tables
get_available_tables == dict_keys(managers)

\* SQLiteStorage.find_value_by_row_and_column: the target column of the first
\* row whose key column holds the reference value, None when there is none.
find_value_by_row_and_column(st, t, col, ref, target) ==
    LET hits == {i \in 1..Len(st[t]) : col \in DOMAIN st[t][i] /\ st[t][i][col] = ref}
    IN IF hits = {} THEN Null
       ELSE LET row == st[t][CHOOSE i \in hits : \A j \in hits : i <= j]
            IN IF target \in DOMAIN row THEN Value(row[target]) ELSE Null

\* SQLiteStorage.execute_sql_query, for the query that reads the whole table
storage_execute_sql_query(st, t) == Rows(st[t])

\* AirtableCSVManager.get_value_by_row_and_column
get_value_by_row_and_column(self, st, col, ref, target) ==
    IF self.sqlite_storage # NoStorage
    THEN find_value_by_row_and_column(st, self.table_name, col, ref, target)
    ELSE Null

\* AirtableCSVManager.execute_sql_query
handle_execute_sql_query(self, st) ==
    IF self.sqlite_storage # NoStorage
    THEN storage_execute_sql_query(st, self.table_name)
    ELSE Null

StorageCalls(self) == IF self.sqlite_storage # NoStorage THEN 1 ELSE 0

\* AirtableMultiManager.get_value
get_value(tn, col, ref, target) ==
    /\ phase = "constructed"
    /\ LET manager == get_manager(tn) IN
       IF manager # NoManager
       THEN last' = Call("get_value", tn,
                         Returned(get_value_by_row_and_column(manager, store, col, ref, target)),
                         FetchOk(<<>>), [remote |-> 0, storage |-> StorageCalls(manager)])
       ELSE last' = Call("get_value", tn, Returned(Null), FetchOk(<<>>), NoCalls)
    /\ UNCHANGED <<phase, api_key, base_id, table_names, managers, sqlite_storage,
                   store, csvVars>>

\* AirtableMultiManager.execute_sql_query
execute_sql_query(tn) ==
    /\ phase = "constructed"
    /\ LET manager == get_manager(tn) IN
       IF manager # NoManager
       THEN last' = Call("execute_sql_query", tn,
                         Returned(handle_execute_sql_query(manager, store)),
                         FetchOk(<<>>), [remote |-> 0, storage |-> StorageCalls(manager)])
       ELSE last' = Call("execute_sql_query", tn, Returned(Null), FetchOk(<<>>), NoCalls)
    /\ UNCHANGED <<phase, api_key, base_id, table_names, managers, sqlite_storage,
                   store, csvVars>>

\* A row lookup asked of the coordinator: AirtableMultiManager defines no
\* lookup_row or get_row (only the handle has get_row), so the attribute
\* lookup raises AttributeError whatever the table name.
lookup_row(tn) ==
    /\ phase = "constructed"
    /\ last' = Call("lookup_row", tn, Raised("AttributeError"), FetchOk(<<>>), NoCalls)
    /\ UNCHANGED <<phase, api_key, base_id, table_names, managers, sqlite_storage,
                   store, csvVars>>

\* AirtableMultiManager.update_csv_from_airtable as a function of the state:
\* the outcome, the storage after it, the collaborator calls made
sync_table(mgrs, tn, fetch, ho, st) ==
    LET manager == dict_get(mgrs, tn) IN
    IF manager # NoManager
    THEN LET r == handle_update(manager, fetch, ho, st)
         IN [outcome |-> r.outcome, store |-> r.store,
             calls |-> [remote |-> 1,
                        storage |-> IF ~r.outcome.raised /\ r.outcome.value # Null
                                    THEN StorageCalls(manager) ELSE 0]]
    ELSE [outcome |-> Returned(Null), store |-> st, calls |-> NoCalls]

\* AirtableMultiManager.update_csv_from_airtable
update_csv_from_airtable(tn, fetch, ho) ==
    /\ phase = "constructed"
    /\ LET r == sync_table(managers, tn, fetch, ho, store) IN
       /\ store' = r.store
       /\ last' = Call("update_csv_from_airtable", tn, r.outcome,
                       IF dict_has(managers, tn) THEN fetch ELSE FetchOk(<<>>), r.calls)
    /\ UNCHANGED <<phase, api_key, base_id, table_names, managers, sqlite_storage,
                   csvVars>>

AddCalls(a, b) == [remote |-> a.remote + b.remote, storage |-> a.storage + b.storage]

\* update_all_tables without its try/except: a raise leaves the loop
update_all_body_no_except(acc, mgrs, tn, fetch, ho) ==
    LET r == sync_table(mgrs, tn, fetch, ho, acc.store) IN
    IF r.outcome.raised
    THEN [results |-> acc.results, store |-> r.store, raised |-> TRUE,
          calls |-> AddCalls(acc.calls, r.calls)]
    ELSE [results |-> (tn :> (IF r.outcome.value # Null THEN r.outcome.value ELSE Failed))
                      @@ acc.results,
          store |-> r.store, raised |-> FALSE, calls |-> AddCalls(acc.calls, r.calls)]

\* the body of update_all_tables' loop for one table
update_all_body(acc, mgrs, tn, fetch, ho) ==
    LET r == sync_table(mgrs, tn, fetch, ho, acc.store) IN
    IF r.outcome.raised
    THEN [results |-> (tn :> ErrorMsg(r.outcome.value)) @@ acc.results,
          store |-> r.store, raised |-> FALSE, calls |-> AddCalls(acc.calls, r.calls)]
    ELSE [results |-> (tn :> (IF r.outcome.value # Null THEN r.outcome.value ELSE Failed))
                      @@ acc.results,
          store |-> r.store, raised |-> FALSE, calls |-> AddCalls(acc.calls, r.calls)]

\* for table_name in self.managers.keys(): ...
RECURSIVE update_all_loop(_, _, _, _, _)
update_all_loop(acc, mgrs, keys, fm, ho) ==
    IF keys = <<>> \/ acc.raised THEN acc
    ELSE update_all_loop(update_all_body(acc, mgrs, Head(keys), fm[Head(keys)], ho),
                         mgrs, Tail(keys), fm, ho)

\* AirtableMultiManager.update_all_tables: fm is what each table's fetch does
update_all_tables(fm, ho) ==
    /\ phase = "constructed"
    /\ DOMAIN fm = Range(dict_keys(managers))
    /\ LET r == update_all_loop([results |-> <<>>, store |-> store, raised |-> FALSE,
                                 calls |-> NoCalls],
                                managers, dict_keys(managers), fm, ho)
       IN /\ store' = r.store
          /\ last' = Call("update_all_tables", "",
                          IF r.raised THEN Raised("fetch failed")
                          ELSE Returned(Dict(r.results)),
                          fm, r.calls)
    /\ UNCHANGED <<phase, api_key, base_id, table_names, managers, sqlite_storage,
                   csvVars>>

(***************************************************************************)
(* The coordinator's state machine.                                        *)
(***************************************************************************)
\* table names the calls are made with
CallNames == {DefaultTable, "Users"}

\* what a remote fetch may do: fail, return nothing, return records
RemoteRecords == <<[fields |-> (<<"f">> :> StrVal(<<"a">>)) @@ (<<"g">> :> IntVal)],
                   [fields |-> (<<"g">> :> StrVal(<<"a", Comma>>))]>>
Fetches == {FetchError, FetchOk(<<>>), FetchOk(RemoteRecords)}

\* The constructor puts no test on its credentials, so one falsy value stands
\* for both; the factories are given every value of Cred.
DirectCred == {AbsentCred, "key"}

\* The iteration order of a set of strings is fixed by the process's string
\* hashes; the coordinator's runs take one order (the stand-alone sync is
\* run under every order).
ProcessHashOrder == CHOOSE ho \in HashOrders : TRUE

InitLists(N) == {NoList} \cup {SomeList(q) : q \in UNION {[1..n -> N] : n \in 0..MaxInitLen}}

FoundLists(N) == {NoList} \cup {SomeList(q) : q \in UNION {[1..n -> N] : n \in 0..MaxDiscover}}

Init ==
    /\ phase = "unconstructed"
    /\ api_key = AbsentCred /\ base_id = AbsentCred
    /\ table_names = <<>> /\ managers = <<>>
    /\ sqlite_storage = NoStorage
    /\ store = EmptyStore
    /\ last = [op |-> "none", arg |-> "", outcome |-> Returned(Null), again |-> FALSE,
               fetch |-> FetchOk(<<>>), calls |-> NoCalls]
    /\ CsvIdle

Next ==
    \/ \E k \in DirectCred, b \in DirectCred, tl \in InitLists(CallNames),
          storage \in {NoStorage, PassedStorage} : construct(k, b, tl, storage)
    \/ \E k \in Cred, b \in Cred : from_environment(k, b)
    \/ \E k \in Cred, b \in Cred, tl \in InitLists(CallNames) : from_config_dict(k, b, tl)
    \/ \E tn \in CallNames : add_table(tn)
    \/ \E tn \in CallNames : remove_table(tn)
    \/ \E found \in FoundLists(CallNames) : discover_and_add_tables_from_base(found)
    \/ \E tn \in CallNames, col \in FieldNames :
          get_value(tn, col, <<"a">>, <<"g">>)
    \/ \E tn \in CallNames : execute_sql_query(tn)
    \/ \E tn \in CallNames : lookup_row(tn)
    \/ \E tn \in CallNames, fetch \in Fetches :
          update_csv_from_airtable(tn, fetch, ProcessHashOrder)
    \/ \E fm \in [Range(dict_keys(managers)) -> Fetches] :
          update_all_tables(fm, ProcessHashOrder)

Spec == Init /\ [][Next]_vars

\* The coordinator over all three tables: made by from_config_dict from any
\* short list or from the list of the three, then tables removed and all
\* tables synced.
ThreeTables == <<DefaultTable, "Users", "Quests">>

NextBulk ==
    \/ \E k \in Cred, b \in Cred,
          tl \in InitLists(TableNames) \cup {SomeList(ThreeTables)} :
          from_config_dict(k, b, tl)
    \/ \E tn \in TableNames : remove_table(tn)
    \/ \E fm \in [Range(dict_keys(managers)) -> Fetches] :
          update_all_tables(fm, ProcessHashOrder)

SpecBulk == Init /\ [][NextBulk]_vars

(***************************************************************************)
(* Properties of the written CSV text.                                     *)
(***************************************************************************)
\* the cell of parsed row r under column k, the columns being in order fns
CellOf(rows, r, fns, k) ==
    LET j == CHOOSE j \in 1..Len(fns) : fns[j] = k
    IN IF r <= Len(rows) /\ j <= Len(rows[r]) THEN rows[r][j] ELSE <<"?">>

\* C4: every string field value of a synced record is recovered exactly when
\* the written text is re-parsed under standard CSV rules.
EscapingRoundTrip ==
    cpc = "reparsed" =>
        \A i \in 1..Len(records) : \A k \in DOMAIN records[i].fields :
            records[i].fields[k].kind = "str" =>
                CellOf(reparsed, i + 1, fieldnames, k) = records[i].fields[k].s

\* The round trip does hold for every string that does not hold both a comma
\* and a double quote.
EscapingRoundTripUnlessCommaAndQuote ==
    cpc = "reparsed" =>
        \A i \in 1..Len(records) : \A k \in DOMAIN records[i].fields :
            LET v == records[i].fields[k] IN
            (v.kind = "str" /\ ~(HasChar(v.s, Comma) /\ HasChar(v.s, Quote))) =>
                CellOf(reparsed, i + 1, fieldnames, k) = v.s

\* C10: after a sync of a non-empty result, the columns of the text handed to
\* the storage import are exactly the union of the records' field names, and
\* every row has one cell per column, empty where the record lacks the field.
UnionOfColumns ==
    (cpc = "synced" /\ records # <<>>) =>
        /\ sync_result = Returned(SuccessMsg(DefaultTable))
        /\ LET rows == csv_reader(csv_data)
               header == rows[1]
           IN /\ Len(rows) = Len(records) + 1
              /\ Range(header) =
                    {k \in FieldNames : \E i \in 1..Len(records) :
                                            k \in DOMAIN records[i].fields}
              /\ Cardinality(Range(header)) = Len(header)
              /\ \A i \in 1..Len(records) :
                    /\ Len(rows[i + 1]) = Len(header)
                    /\ \A j \in 1..Len(header) :
                          header[j] \notin DOMAIN records[i].fields
                              => rows[i + 1][j] = <<>>

\* C10 witness: two records with disjoint field sets were synced into a
\* two-column text.
UnionOfColumnsWitness ==
    /\ cpc = "synced"
    /\ Len(records) = 2
    /\ DOMAIN records[1].fields = {<<"f">>}
    /\ DOMAIN records[2].fields = {<<"g">>}
    /\ Range(csv_reader(csv_data)[1]) = FieldNames

\* C7: a second sync of a table whose remote result is unchanged leaves the
\* table's stored rows as the first sync left them: the same rows, none
\* twice, none added.
FullReplaceIdempotence ==
    [][cpc' = "synced again" =>
          /\ Range(store'[DefaultTable]) = Range(store[DefaultTable])
          /\ Len(store'[DefaultTable]) = Len(store[DefaultTable])
          /\ sync_result' = sync_result]_vars

\* C7 witness: two records were synced twice and the table holds two rows.
FullReplaceIdempotenceWitness ==
    /\ cpc = "synced again"
    /\ Len(records) = 2
    /\ Len(store[DefaultTable]) = 2
    /\ sync_result = Returned(SuccessMsg(DefaultTable))

(***************************************************************************)
(* Properties of the coordinator.                                          *)
(***************************************************************************)
\* C1: table_names and managers are in bijection: every tracked name occurs
\* once in table_names and has one handle, every key of managers is tracked.
RegistryBijection ==
    phase = "constructed" =>
        /\ \A n \in Range(table_names) :
              Count(table_names, n) = 1 /\ Count(dict_keys(managers), n) = 1
        /\ \A k \in Range(dict_keys(managers)) : k \in Range(table_names)

\* C2: update_all_tables returns normally with one entry per registered
\* table: an error marker where the fetch raised, the success message where
\* it returned records, and those records' rows are then the table's rows in
\* the storage, whatever the other tables' fetches did.
BulkPartialFailure ==
    last.op = "update_all_tables" =>
        /\ ~last.outcome.raised
        /\ last.outcome.value.kind = "dict"
        /\ LET results == last.outcome.value.val[1] IN
           /\ DOMAIN results = Range(get_available_tables)
           /\ \A t \in DOMAIN results :
                 /\ last.fetch[t].raises =>
                       results[t] = [kind |-> "Error", val |-> <<"fetch failed">>]
                 /\ (~last.fetch[t].raises /\ last.fetch[t].records # <<>>) =>
                       /\ results[t] = SuccessMsg(t)
                       /\ store[t] = csv_rows(write_csv(last.fetch[t].records,
                                                        ProcessHashOrder))

\* C2 witness: three tables were registered, the fetch of the second one in
\* the loop's order raised, the first and the third returned records, and the
\* third one's rows are in the storage.
BulkPartialFailureWitness ==
    /\ last.op = "update_all_tables"
    /\ Len(managers) = 3
    /\ last.fetch[managers[1].key] = FetchOk(RemoteRecords)
    /\ last.fetch[managers[2].key].raises
    /\ last.fetch[managers[3].key] = FetchOk(RemoteRecords)
    /\ Len(store[managers[3].key]) = 2
    /\ DOMAIN last.outcome.value.val[1] = TableNames

TableScopedOps == {"get_value", "lookup_row", "execute_sql_query", "update_csv_from_airtable"}

\* C3: get_value, lookup_row, run_query and sync_table called with a name that
\* has no handle return None without raising, call neither the remote source
\* nor the storage, and leave the registry and the storage as they were.
UnknownTableSafety ==
    [][(last'.op \in TableScopedOps /\ ~dict_has(managers, last'.arg)) =>
          /\ last'.outcome = Returned(Null)
          /\ last'.calls = NoCalls
          /\ UNCHANGED <<table_names, managers, sqlite_storage, store>>]_vars

\* The same for the three of these operations the coordinator defines.
UnknownTableSafetyOfDefinedOps ==
    [][(last'.op \in TableScopedOps \ {"lookup_row"} /\ ~dict_has(managers, last'.arg)) =>
          /\ last'.outcome = Returned(Null)
          /\ last'.calls = NoCalls
          /\ UNCHANGED <<table_names, managers, sqlite_storage, store>>]_vars

\* C5: a sync whose fetch returns no records leaves every table's stored rows
\* as they were and returns None, the "no data" outcome.
EmptyResultNoOp ==
    [][(last'.op = "update_csv_from_airtable" /\ dict_has(managers, last'.arg)
        /\ last'.fetch = FetchOk(<<>>)) =>
          /\ store' = store
          /\ last'.outcome = Returned(Null)]_vars

\* C5 witness: a registered table that already holds rows was synced, the
\* fetch returned no records, and the rows are still there.
EmptyResultNoOpWitness ==
    /\ last.op = "update_csv_from_airtable"
    /\ dict_has(managers, last.arg)
    /\ last.fetch = FetchOk(<<>>)
    /\ last.calls.remote = 1
    /\ Len(store[last.arg]) = 2

\* C6: after add_table(X) directly after add_table(X) there is one X in
\* table_names and one handle for X; remove_table(X) directly after
\* remove_table(X) returns False.
AddRemoveIdempotence ==
    /\ (last.op = "add_table" /\ last.again) =>
          /\ Count(table_names, last.arg) = 1
          /\ Count(dict_keys(managers), last.arg) = 1
    /\ (last.op = "remove_table" /\ last.again) =>
          last.outcome = Returned(Bool(FALSE))

\* The second half of C6 on its own.
SecondRemoveReturnsFalse ==
    (last.op = "remove_table" /\ last.again) => last.outcome = Returned(Bool(FALSE))

\* C8: no coordinator exists whose api_key or base_id is missing or empty.
ConfigErrorFatal ==
    phase = "constructed" => (~falsy(api_key) /\ ~falsy(base_id))

\* The factories do refuse a missing or empty api_key or base_id.
FactoriesRefuseMissingCredentials ==
    last.op \in {"from_environment", "from_config_dict"} =>
        IF last.outcome.raised THEN phase = "config_error"
        ELSE phase = "constructed" /\ ~falsy(api_key) /\ ~falsy(base_id)

\* C9: every registered handle holds the coordinator's own storage instance,
\* and the coordinator always has one.
SharedStorage ==
    phase = "constructed" =>
        /\ sqlite_storage # NoStorage
        /\ \A i \in 1..Len(managers) :
              managers[i].value.sqlite_storage = sqlite_storage

\* C9 witness: a name that had a handle was added again, its handle replaced,
\* beside another registered table.
SharedStorageWitness ==
    /\ last.op = "add_table" /\ last.again
    /\ Len(managers) = 2
    /\ sqlite_storage = OwnStorage

====
